---- MODULE Spec2Model ----
(***************************************************************************)
(* bevy_terrain: fixed-size power-of-two chunks (src/src/chunk.rs), the    *)
(* chunk iterator, and the planar terrain meshing system                   *)
(* (src/src/planar_terrain.rs).                                            *)
(*                                                                         *)
(* Coordinates are sequences: the Rust array element pos[k] is pos[k+1]    *)
(* here.  usize arithmetic is modelled on naturals; every value the model  *)
(* reaches is far below 2^64, so no shift or addition wraps.               *)
(***************************************************************************)
EXTENDS Integers, Sequences, FiniteSets, TLC

(***************************************************************************)
(* Bounds of the model.                                                    *)
(***************************************************************************)
\* Chunk types are modelled for every (exp, dim) with exp * dim <= MaxBits,
\* i.e. every chunk whose linear index fits in MaxBits bits.
MaxBits == 3
\* Cell values written to a chunk are 0 .. MaxVal (u8 in the source).
MaxVal == 1
\* The codec alone is applied for every (exp, dim) with exp * dim <= MaxCodecBits.
MaxCodecBits == 6

(***************************************************************************)
(* Bit arithmetic on naturals, as used by the power-of-two shapes.         *)
(***************************************************************************)
RECURSIVE Pow(_, _)
Pow(b, n) == IF n = 0 THEN 1 ELSE b * Pow(b, n - 1)

RECURSIVE BitAnd(_, _)
BitAnd(a, b) ==
    IF a = 0 \/ b = 0 THEN 0
    ELSE (IF a % 2 = 1 /\ b % 2 = 1 THEN 1 ELSE 0) + 2 * BitAnd(a \div 2, b \div 2)

RECURSIVE BitOr(_, _)
BitOr(a, b) ==
    IF a = 0 THEN b
    ELSE IF b = 0 THEN a
    ELSE (IF a % 2 = 1 \/ b % 2 = 1 THEN 1 ELSE 0) + 2 * BitOr(a \div 2, b \div 2)

Shl(a, s) == a * Pow(2, s)
Shr(a, s) == a \div Pow(2, s)

(***************************************************************************)
(* Chunk types: create_chunk_type!(name, u8, shape, exp, dim).             *)
(***************************************************************************)
Dims == {2, 3}
ChunkTypes == {t \in [exp : 1..MaxBits, dim : Dims] : t.exp * t.dim <= MaxBits}
CodecTypes == {t \in [exp : 1..MaxCodecBits, dim : Dims] : t.exp * t.dim <= MaxCodecBits}

\* const WIDTH: usize = 2_usize.pow($exp);
WIDTH(t) == Pow(2, t.exp)
\* const SIZE: usize = Self::WIDTH.pow($dim);
SIZE(t) == Pow(WIDTH(t), t.dim)

\* The masks of ConstPow2Shape{2,3}usize<X, X[, X]>: axis k occupies bits
\* [k*X, (k+1)*X).
X_MASK(t) == Pow(2, t.exp) - 1
Y_MASK(t) == Shl(Pow(2, t.exp) - 1, t.exp)
Z_MASK(t) == Shl(Pow(2, t.exp) - 1, 2 * t.exp)

\* A mutated linearize that packs the axes in the opposite order.
linearize_swapped(t, pos) ==
    IF t.dim = 2
    THEN BitOr(Shl(pos[1], t.exp), pos[2])
    ELSE BitOr(BitOr(Shl(pos[1], 2 * t.exp), Shl(pos[2], t.exp)), pos[3])

\* Chunk::linearize = Self::shape().linearize(pos): the components are
\* shifted to their bit fields and or-ed together, without masking.
linearize(t, pos) ==
    IF t.dim = 2
    THEN BitOr(Shl(pos[2], t.exp), pos[1])
    ELSE BitOr(BitOr(Shl(pos[3], 2 * t.exp), Shl(pos[2], t.exp)), pos[1])

\* A mutated delinearize that returns the components in the opposite order.
delinearize_swapped(t, i) ==
    IF t.dim = 2
    THEN << Shr(BitAnd(i, Y_MASK(t)), t.exp), BitAnd(i, X_MASK(t)) >>
    ELSE << Shr(BitAnd(i, Z_MASK(t)), 2 * t.exp),
            Shr(BitAnd(i, Y_MASK(t)), t.exp),
            BitAnd(i, X_MASK(t)) >>

\* Chunk::delinearize = Self::shape().delinearize(index): each component is
\* masked out of the index and shifted down.
delinearize(t, i) ==
    IF t.dim = 2
    THEN << BitAnd(i, X_MASK(t)), Shr(BitAnd(i, Y_MASK(t)), t.exp) >>
    ELSE << BitAnd(i, X_MASK(t)),
            Shr(BitAnd(i, Y_MASK(t)), t.exp),
            Shr(BitAnd(i, Z_MASK(t)), 2 * t.exp) >>

\* Coordinates of dimension t.dim with every component in S.
CoordsOver(t, S) == IF t.dim = 2 THEN S \X S ELSE S \X S \X S
\* The valid coordinates of a chunk: every component in [0, WIDTH).
ValidCoords(t) == CoordsOver(t, 0..(WIDTH(t) - 1))
\* Inputs offered to the codec: valid and out-of-range components and indices.
CodecCoords(t) == CoordsOver(t, 0..(2 * WIDTH(t) - 1))
CodecIndices(t) == 0..(2 * SIZE(t) - 1)
\* Coordinates offered to write and sample: every valid component, and the
\* first out-of-range one.
ArgCoords(t) == CoordsOver(t, 0..WIDTH(t))
IsValid(t, pos) == \A k \in 1..t.dim : pos[k] < WIDTH(t)

NoRet == [op |-> "none"]

\* Cell values (u8 in the source), cut to 0 .. MaxVal.
Values == 0..MaxVal

VARIABLES
    ctype,      \* the chunk type of the chunk under test
    data,       \* the chunk's backing array: data[i] for i in 0 .. SIZE-1
    status,     \* "running", or "panicked" once an array index was out of bounds
    ret,        \* the last call: its arguments or what it returned
    iters,      \* the ChunkIterator structs: live or not, and their index field
    yielded,    \* per iterator, the items next() has returned and whether it
                \* has returned None
    world       \* the ECS world: the PlanarTerrain components, the PbrBundle
                \* inserted on each entity, and the mesh and material assets

iterVars == << iters, yielded >>
vars == << ctype, data, status, ret, iters, yielded, world >>

\* The world before anything is spawned.
EmptyWorld == [terrains |-> << >>, bundle |-> << >>, meshes |-> << >>, materials |-> 0]

\* Chunk::new(): data: [$data_type::default(); Self::SIZE]
ChunkNew(t) == [i \in 0..(SIZE(t) - 1) |-> 0]

\* Array indexing data[idx] is bounds-checked: it panics when idx >= SIZE.
InBounds(t, idx) == idx < SIZE(t)

\* Sampleable::sample as a function of the array: self.data[Self::linearize(pos)].
\* Panicked is the outcome of the index-out-of-bounds panic, Returned(v) a
\* normal return of v.
Panicked == [ok |-> FALSE, val |-> 0]
Returned(v) == [ok |-> TRUE, val |-> v]
sample(t, d, pos) ==
    LET idx == linearize(t, pos)
    IN  IF InBounds(t, idx) THEN Returned(d[idx]) ELSE Panicked

NoIter == [live |-> FALSE, index |-> 0]
NoYield == [items |-> << >>, none |-> FALSE]

(***************************************************************************)
(* SpecCodec: the pure coordinate codec applied to enumerated inputs.      *)
(***************************************************************************)
InitCodec ==
    /\ ctype \in CodecTypes
    /\ data = ChunkNew(ctype)
    /\ status = "running"
    /\ ret = NoRet
    /\ iters = << >>
    /\ yielded = << >>
    /\ world = EmptyWorld

CallLinearize(pos) ==
    /\ ret' = [op |-> "linearize", arg |-> pos, out |-> linearize(ctype, pos)]
    /\ UNCHANGED << ctype, data, status, iterVars, world >>

CallDelinearize(i) ==
    /\ ret' = [op |-> "delinearize", arg |-> i, out |-> delinearize(ctype, i)]
    /\ UNCHANGED << ctype, data, status, iterVars, world >>

NextCodec ==
    \/ \E pos \in CodecCoords(ctype) : CallLinearize(pos)
    \/ \E i \in CodecIndices(ctype) : CallDelinearize(i)

SpecCodec == InitCodec /\ [][NextCodec]_vars

\* C1: linearize and delinearize are mutually inverse on valid inputs: for a
\* coordinate c with every component in [0, WIDTH), linearize(c) lies in
\* [0, SIZE) and delinearize(linearize(c)) = c; for an index i in [0, SIZE),
\* every component of delinearize(i) lies in [0, WIDTH) and
\* linearize(delinearize(i)) = i.
C1_Bijection ==
    /\ (ret.op = "linearize" /\ IsValid(ctype, ret.arg)) =>
          /\ ret.out \in 0..(SIZE(ctype) - 1)
          /\ delinearize(ctype, ret.out) = ret.arg
    /\ (ret.op = "delinearize" /\ ret.arg < SIZE(ctype)) =>
          /\ Len(ret.out) = ctype.dim
          /\ IsValid(ctype, ret.out)
          /\ linearize(ctype, ret.out) = ret.arg

\* A valid coordinate on the second axis has been linearized to its index.
C1_Witness ==
    /\ ret.op = "linearize"
    /\ IsValid(ctype, ret.arg)
    /\ ret.arg[1] = 0
    /\ ret.arg[2] = WIDTH(ctype) - 1
    /\ ret.out = (WIDTH(ctype) - 1) * WIDTH(ctype)

(***************************************************************************)
(* SpecChunk: one chunk, written and sampled.                              *)
(***************************************************************************)
\* At most MaxWritten cells of the chunk hold a non-default value.
MaxWritten == 1

NonDefault(d) == {i \in DOMAIN d : d[i] # 0}

InitChunk ==
    /\ ctype \in ChunkTypes
    /\ data = ChunkNew(ctype)
    /\ status = "running"
    /\ ret = NoRet
    /\ iters = << >>
    /\ yielded = << >>
    /\ world = EmptyWorld

\* A mutated write that stores the value in the cell of the transposed
\* coordinate.
write_swapped(pos, val) ==
    /\ status = "running"
    /\ ret' = [op |-> "write", arg |-> pos, val |-> val]
    /\ LET idx == linearize_swapped(ctype, pos)
       IN  IF InBounds(ctype, idx)
           THEN /\ data' = [data EXCEPT ![idx] = val]
                /\ status' = status
           ELSE /\ data' = data
                /\ status' = "panicked"
    /\ Cardinality(NonDefault(data')) <= MaxWritten
    /\ UNCHANGED << ctype, iterVars, world >>

\* Chunk::write: self.data[Self::linearize(pos)] = val;
write(pos, val) ==
    /\ status = "running"
    /\ ret' = [op |-> "write", arg |-> pos, val |-> val]
    /\ LET idx == linearize(ctype, pos)
       IN  IF InBounds(ctype, idx)
           THEN /\ data' = [data EXCEPT ![idx] = val]
                /\ status' = status
           ELSE /\ data' = data
                /\ status' = "panicked"
    /\ Cardinality(NonDefault(data')) <= MaxWritten
    /\ UNCHANGED << ctype, iterVars, world >>

\* A call of Sampleable::sample on the chunk.
CallSample(pos) ==
    /\ status = "running"
    /\ LET got == sample(ctype, data, pos)
       IN  /\ ret' = [op |-> "sample", out |-> got]
           /\ status' = IF got.ok THEN status ELSE "panicked"
    /\ UNCHANGED << ctype, data, iterVars, world >>

NextChunk ==
    \/ \E pos \in ArgCoords(ctype), val \in Values : write(pos, val)
    \/ \E pos \in ArgCoords(ctype) : CallSample(pos)

SpecChunk == InitChunk /\ [][NextChunk]_vars

\* C2: for every valid coordinate c and value v, after write(c, v) the call
\* sample(c) returns v, sample(d) returns what it returned before the write
\* for every valid d # c, and the backing array keeps exactly SIZE elements.
C2_WriteReadRoundTrip ==
    [][(/\ ret'.op = "write"
        /\ IsValid(ctype, ret'.arg)
        /\ write(ret'.arg, ret'.val))
       => /\ status' = "running"
          /\ sample(ctype, data', ret'.arg) = Returned(ret'.val)
          /\ \A d \in ValidCoords(ctype) \ {ret'.arg} :
                 sample(ctype, data', d) = sample(ctype, data, d)
          /\ DOMAIN data' = 0..(SIZE(ctype) - 1)]_vars

\* A non-default value has been written to a valid cell other than the
\* first and is stored there.
C2_Witness ==
    /\ ret.op = "write"
    /\ IsValid(ctype, ret.arg)
    /\ ret.arg[2] > 0
    /\ ret.val # 0
    /\ status = "running"
    /\ data[linearize(ctype, ret.arg)] = ret.val

\* C3: write(pos, val) and sample(pos) fail with an index-out-of-range
\* failure whenever any component of pos is >= WIDTH, and leave every cell
\* unchanged: an out-of-range coordinate is never aliased onto another cell.
C3_OutOfRangeFails ==
    [][\A pos \in ArgCoords(ctype) :
          (/\ ~IsValid(ctype, pos)
           /\ \/ \E v \in Values : write(pos, v)
              \/ CallSample(pos))
          => (status' = "panicked" /\ data' = data)]_vars

(***************************************************************************)
(* SpecIter: iterators over one chunk.  An iterator borrows the chunk, so  *)
(* no write happens while one is live; the chunk's contents are an input.  *)
(***************************************************************************)
\* The number of iterators that may be live at once.
MaxIters == 2

Iters == 1..MaxIters

\* The chunk contents given to the iterators: a new chunk with at most one
\* cell written.
SparseChunks(t) ==
    {ChunkNew(t)} \cup
    {[ChunkNew(t) EXCEPT ![i] = v] : i \in 0..(SIZE(t) - 1), v \in Values \ {0}}

InitIter ==
    /\ ctype \in ChunkTypes
    /\ data \in SparseChunks(ctype)
    /\ status = "running"
    /\ ret = NoRet
    /\ iters = [i \in Iters |-> NoIter]
    /\ yielded = [i \in Iters |-> NoYield]
    /\ world = EmptyWorld

\* Chunk::iter: ChunkIterator { index: 0, chunk: self, .. }
iter(i) ==
    /\ status = "running"
    /\ ~iters[i].live
    /\ iters' = [iters EXCEPT ![i] = [live |-> TRUE, index |-> 0]]
    /\ yielded' = [yielded EXCEPT ![i] = NoYield]
    /\ UNCHANGED << ctype, data, status, ret, world >>

\* ChunkIterator::next
next(i) ==
    /\ status = "running"
    /\ iters[i].live
    /\ IF iters[i].index >= SIZE(ctype)
       THEN \* None
            /\ yielded' = [yielded EXCEPT ![i].none = TRUE]
            /\ UNCHANGED << iters, status >>
       ELSE LET pos == delinearize(ctype, iters[i].index)
                got == sample(ctype, data, pos)
            IN  /\ iters' = [iters EXCEPT ![i].index = @ + 1]
                /\ IF got.ok
                   THEN \* Some((pos, self.chunk.sample(pos)))
                        /\ yielded' = [yielded EXCEPT ![i].items =
                                          Append(@, << pos, got.val >>)]
                        /\ status' = status
                   ELSE /\ yielded' = yielded
                        /\ status' = "panicked"
    /\ UNCHANGED << ctype, data, ret, world >>

\* The iterator goes out of scope.
DropIter(i) ==
    /\ status = "running"
    /\ iters[i].live
    /\ iters' = [iters EXCEPT ![i] = NoIter]
    /\ yielded' = [yielded EXCEPT ![i] = NoYield]
    /\ UNCHANGED << ctype, data, status, ret, world >>

NextIter ==
    \/ \E i \in Iters : iter(i)
    \/ \E i \in Iters : next(i)
    \/ \E i \in Iters : DropIter(i)

SpecIter == InitIter /\ [][NextIter]_vars

\* The coordinate of linear index k in the fixed radix scheme
\* index = c[0] + c[1]*WIDTH + c[2]*WIDTH^2: component 0 varies fastest.
RadixCoord(t, k) ==
    IF t.dim = 2
    THEN << k % WIDTH(t), (k \div WIDTH(t)) % WIDTH(t) >>
    ELSE << k % WIDTH(t), (k \div WIDTH(t)) % WIDTH(t),
            (k \div (WIDTH(t) * WIDTH(t))) % WIDTH(t) >>

\* What an iterator has yielded so far is right: item k (from 0) is the cell
\* of linear index k with its value; None comes after exactly SIZE items,
\* which are (delinearize(k), sample(delinearize(k))) for k = 0 .. SIZE-1 and
\* cover every valid coordinate exactly once.
IterYieldsRight(i) ==
    /\ yielded[i].items = [k \in 1..iters[i].index |->
                              << RadixCoord(ctype, k - 1), data[k - 1] >>]
    /\ iters[i].index <= SIZE(ctype)
    /\ yielded[i].none =>
          /\ Len(yielded[i].items) = SIZE(ctype)
          /\ \A k \in 1..SIZE(ctype) :
                yielded[i].items[k] =
                   << delinearize(ctype, k - 1),
                      sample(ctype, data, delinearize(ctype, k - 1)).val >>
          /\ {yielded[i].items[k][1] : k \in 1..SIZE(ctype)} = ValidCoords(ctype)

\* C4: iter() yields exactly SIZE (coordinate, value) pairs and then None;
\* the k-th pair is (delinearize(k), sample(delinearize(k))), in ascending
\* linear-index order with component 0 varying fastest; iteration changes no
\* cell; every iter() starts at index 0 independently of the other
\* iterators, so two iterations of the unmodified chunk yield the same
\* sequence.
C4_Iteration ==
    /\ [](status = "running" /\ \A i \in Iters : iters[i].live => IterYieldsRight(i))
    /\ [][\A i \in Iters :
            /\ iter(i) =>
                  /\ iters'[i].index = 0 /\ yielded'[i].items = << >>
                  /\ \A j \in Iters \ {i} : iters'[j] = iters[j] /\ yielded'[j] = yielded[j]
                  /\ data' = data
            /\ next(i) =>
                  /\ \A j \in Iters \ {i} : iters'[j] = iters[j] /\ yielded'[j] = yielded[j]
                  /\ data' = data
                  /\ IF Len(yielded[i].items) < SIZE(ctype)
                     THEN Len(yielded'[i].items) = Len(yielded[i].items) + 1
                          /\ ~yielded'[i].none
                     ELSE yielded'[i].items = yielded[i].items /\ yielded'[i].none]_vars

\* Two iterators over a chunk with a written cell: one has run to None, the
\* other, started independently, is part-way through the same sequence.
C4_Witness ==
    /\ NonDefault(data) # {}
    /\ iters[1].live /\ yielded[1].none
    /\ Len(yielded[1].items) = SIZE(ctype)
    /\ iters[2].live /\ iters[2].index = 2
    /\ yielded[2].items = SubSeq(yielded[1].items, 1, 2)

(***************************************************************************)
(* The planar terrain and its meshing system (src/src/planar_terrain.rs).  *)
(* The terrain's chunk type Chunk2 is used by planar_terrain.rs but is not *)
(* defined in chunk.rs; it is modelled after the chunk design: a 2D chunk  *)
(* of width Chunk2_DIM with index = x + y * width.                         *)
(***************************************************************************)
\* The width of a Chunk2 is 2^Chunk2Exp.
Chunk2Exp == 2
\* The number of PlanarTerrain entities spawned into the world.
MaxTerrains == 13

\* u8::MAX
U8_MAX == 255

Chunk2_DIM == Pow(2, Chunk2Exp)
Chunk2_linearize(x, y) == x + y * Chunk2_DIM
Chunk2_new == [i \in 0..(Chunk2_DIM * Chunk2_DIM - 1) |-> 0]
Chunk2_sample(chunk, x, y) == chunk[Chunk2_linearize(x, y)]

\* UVec2 { x: 0, y: 0 }
Origin == << 0, 0 >>

\* A mutated constructor that forgets to insert the chunk.
PlanarTerrain_new_nochunk == [chunks |-> << >>, mesh_outdated |-> TRUE]

\* PlanarTerrain::new
PlanarTerrain_new == [chunks |-> (Origin :> Chunk2_new), mesh_outdated |-> TRUE]

\* The iterations of `for x in 0..n { for y in 0..n { .. } }`, in order.
GridOrder(n) == [k \in 1..(n * n) |-> << (k - 1) \div n, (k - 1) % n >>]

\* A quotient a / b of the f32 arithmetic, kept exact as << a, b >>.
Frac(a, b) == << a, b >>

\* The vertex pass: one position, normal and texture coordinate is pushed
\* per iteration of the loops over x and y.
positions(chunk) ==
    [k \in 1..(Chunk2_DIM * Chunk2_DIM) |->
        LET x == GridOrder(Chunk2_DIM)[k][1]
            y == GridOrder(Chunk2_DIM)[k][2]
        IN  [x |-> Frac(x, Chunk2_DIM),
             y |-> Frac(Chunk2_sample(chunk, x, y), U8_MAX),
             z |-> Frac(y, Chunk2_DIM)]]

normals ==
    [k \in 1..(Chunk2_DIM * Chunk2_DIM) |-> [x |-> 0, y |-> 1, z |-> 0]]

texture_coordinates ==
    [k \in 1..(Chunk2_DIM * Chunk2_DIM) |->
        LET x == GridOrder(Chunk2_DIM)[k][1]
            y == GridOrder(Chunk2_DIM)[k][2]
        IN  [x |-> Frac(x, Chunk2_DIM), y |-> Frac(y, Chunk2_DIM)]]

\* A mutated loop bound of the index pass: 0..DIM instead of 0..DIM - 1.
QuadsPerAxis_full == Chunk2_DIM

\* The index pass loops over x and y in 0..Chunk2::DIM - 1.
QuadsPerAxis == Chunk2_DIM - 1

\* A mutated quad whose second triangle is wound the other way round.
QuadIndices_rewound(x, y) ==
    << Chunk2_linearize(x, y),
       Chunk2_linearize(x + 1, y),
       Chunk2_linearize(x, y + 1),
       Chunk2_linearize(x + 1, y),
       Chunk2_linearize(x, y + 1),
       Chunk2_linearize(x + 1, y + 1) >>

\* The six indices pushed for the quad at (x, y).
QuadIndices(x, y) ==
    << Chunk2_linearize(x, y),
       Chunk2_linearize(x + 1, y),
       Chunk2_linearize(x, y + 1),
       Chunk2_linearize(x + 1, y),
       Chunk2_linearize(x + 1, y + 1),
       Chunk2_linearize(x, y + 1) >>

\* The index pass: six indices per iteration of the loops over x and y.
indices ==
    [j \in 1..(6 * QuadsPerAxis * QuadsPerAxis) |->
        LET q == GridOrder(QuadsPerAxis)[(j - 1) \div 6 + 1]
        IN  QuadIndices(q[1], q[2])[((j - 1) % 6) + 1]]

\* The Mesh built from a chunk: its three attributes and its indices.
ExtractMesh(chunk) ==
    [positions |-> positions(chunk),
     normals |-> normals,
     uvs |-> texture_coordinates,
     indices |-> indices]

\* An entity without a PbrBundle; handles of assets count from 1.
NoBundle == [mesh |-> 0, material |-> 0]

\* The entities, in the order the query visits them.
EntitySeq(w) == [e \in 1..Len(w.terrains) |-> e]

\* The entities for which a run extracts a mesh: the terrain is outdated
\* and chunks.get(&UVec2 { x: 0, y: 0 }) is Some(chunk).
Extracted(w) ==
    LET Hit(e) == w.terrains[e].mesh_outdated /\ Origin \in DOMAIN w.terrains[e].chunks
    IN  SelectSeq(EntitySeq(w), Hit)

\* The handle meshes.add (and materials.add) returns for the k-th mesh of
\* a run is the next free one.
NewHandle(count, k) == count + k

\* The PbrBundle of entity e after a run: inserted anew if a mesh was
\* extracted for e (the command buffer is applied with the run).
BundleAfter(w, e) ==
    IF \E k \in 1..Len(Extracted(w)) : Extracted(w)[k] = e
    THEN LET k == CHOOSE k \in 1..Len(Extracted(w)) : Extracted(w)[k] = e
         IN  [mesh |-> NewHandle(Len(w.meshes), k),
              material |-> NewHandle(w.materials, k)]
    ELSE w.bundle[e]

\* A mutated loop body that takes the chunk out of the map when meshing.
TerrainAfter_remove(t) ==
    IF t.mesh_outdated THEN [chunks |-> << >>, mesh_outdated |-> FALSE] ELSE t

\* The terrain component after the loop body: if terrain.mesh_outdated,
\* terrain.mesh_outdated = false (whether or not chunk (0,0) was found).
TerrainAfter(t) ==
    IF t.mesh_outdated THEN [t EXCEPT !.mesh_outdated = FALSE] ELSE t

\* for (mut terrain, entity) in query.iter_mut() { .. }: the world after
\* one run of the system over every entity.
MeshAll(w) ==
    [terrains |-> [e \in 1..Len(w.terrains) |-> TerrainAfter(w.terrains[e])],
     bundle |-> [e \in 1..Len(w.terrains) |-> BundleAfter(w, e)],
     meshes |-> w.meshes \o
                  [k \in 1..Len(Extracted(w)) |->
                      ExtractMesh(w.terrains[Extracted(w)[k]].chunks[Origin])],
     materials |-> w.materials + Len(Extracted(w))]

IdleChunk ==
    /\ ctype = [exp |-> 1, dim |-> 2]
    /\ data = ChunkNew(ctype)
    /\ status = "running"
    /\ ret = NoRet
    /\ iters = << >>
    /\ yielded = << >>

\* One run of the planar_meshing system (it is in the Update schedule).
planar_meshing ==
    /\ world' = MeshAll(world)
    /\ UNCHANGED << ctype, data, status, ret, iterVars >>

\* commands.spawn((PlanarTerrain::new(), ..))
Spawn ==
    /\ Len(world.terrains) < MaxTerrains
    /\ world' = [world EXCEPT !.terrains = Append(@, PlanarTerrain_new),
                              !.bundle = Append(@, NoBundle)]
    /\ UNCHANGED << ctype, data, status, ret, iterVars >>

(***************************************************************************)
(* SpecTerrain: terrains are spawned and the meshing system runs.          *)
(***************************************************************************)
InitTerrain ==
    /\ IdleChunk
    /\ world = EmptyWorld

NextTerrain ==
    \/ Spawn
    \/ planar_meshing

SpecTerrain == InitTerrain /\ [][NextTerrain]_vars

\* The Update schedule runs planar_meshing in every frame.
SpecTerrainLive == SpecTerrain /\ WF_vars(planar_meshing)

(***************************************************************************)
(* SpecMesh: mesh extraction applied to enumerated chunk contents.         *)
(***************************************************************************)
HeightSamples == {1, 100, 200, 255}

\* The chunk contents given to the extraction: a new chunk with at most one
\* cell set to a height.
InputChunks ==
    {Chunk2_new} \cup
    {[Chunk2_new EXCEPT ![i] = h] :
        i \in 0..(Chunk2_DIM * Chunk2_DIM - 1), h \in HeightSamples}

InitMesh ==
    /\ IdleChunk
    /\ \E c \in InputChunks :
          world = [terrains |-> << [chunks |-> (Origin :> c), mesh_outdated |-> TRUE] >>,
                   bundle |-> << NoBundle >>,
                   meshes |-> << >>,
                   materials |-> 0]

NextMesh == planar_meshing

SpecMesh == InitMesh /\ [][NextMesh]_vars

(***************************************************************************)
(* Properties of the extracted mesh.                                       *)
(***************************************************************************)
Entities == 1..Len(world.terrains)
\* The entities a mesh extraction has run for, and the mesh and chunk of one.
Meshed == {e \in Entities : world.bundle[e].mesh # 0}
MeshOf(e) == world.meshes[world.bundle[e].mesh]
ChunkOf(e) == world.terrains[e].chunks[Origin]
Cells == 0..(Chunk2_DIM - 1)

\* C5: one mesh extraction of a 2D chunk of width W yields exactly W^2
\* positions, W^2 normals and W^2 texture coordinates and exactly 6*(W-1)^2
\* indices, every index below W^2, whatever the chunk holds.
C5_MeshSizing ==
    \A e \in Entities :
        ~world.terrains[e].mesh_outdated =>
            /\ e \in Meshed
            /\ Len(MeshOf(e).positions) = Chunk2_DIM * Chunk2_DIM
            /\ Len(MeshOf(e).normals) = Chunk2_DIM * Chunk2_DIM
            /\ Len(MeshOf(e).uvs) = Chunk2_DIM * Chunk2_DIM
            /\ Len(MeshOf(e).indices) = 6 * (Chunk2_DIM - 1) * (Chunk2_DIM - 1)
            /\ \A j \in 1..Len(MeshOf(e).indices) :
                  MeshOf(e).indices[j] \in 0..(Chunk2_DIM * Chunk2_DIM - 1)

\* A mesh has been extracted from a chunk that holds a non-zero height.
C5_Witness ==
    /\ 1 \in Meshed
    /\ \E i \in DOMAIN ChunkOf(1) : ChunkOf(1)[i] = 200
    /\ Len(MeshOf(1).indices) > 6

\* C8: the vertex stored at buffer position linearize(c) is the vertex built
\* from cell c = [cx, cy]: its position is x = cx/W, y = sample(c)/255,
\* z = cy/W and its texture coordinate is (cx/W, cy/W).
C8_VertexAtLinearIndex ==
    \A e \in Meshed : \A cx \in Cells, cy \in Cells :
        /\ MeshOf(e).positions[Chunk2_linearize(cx, cy) + 1] =
              [x |-> Frac(cx, Chunk2_DIM),
               y |-> Frac(Chunk2_sample(ChunkOf(e), cx, cy), U8_MAX),
               z |-> Frac(cy, Chunk2_DIM)]
        /\ MeshOf(e).uvs[Chunk2_linearize(cx, cy) + 1] =
              [x |-> Frac(cx, Chunk2_DIM), y |-> Frac(cy, Chunk2_DIM)]

\* The corner indices of the quad at (x, y), and its diagonal.
Corners(x, y) ==
    {Chunk2_linearize(x, y), Chunk2_linearize(x + 1, y),
     Chunk2_linearize(x, y + 1), Chunk2_linearize(x + 1, y + 1)}
Diagonal(x, y) == {Chunk2_linearize(x + 1, y), Chunk2_linearize(x, y + 1)}
\* The h-th triangle (h in 0..1) of the q-th group of six indices (q from 0).
Triangle(m, q, h) ==
    << m.indices[6 * q + 3 * h + 1], m.indices[6 * q + 3 * h + 2],
       m.indices[6 * q + 3 * h + 3] >>
Range(f) == {f[k] : k \in DOMAIN f}
\* The grid-plane position (numerators of x and z) of the vertex an index
\* refers to, and the 2D cross product of a triangle's edge vectors there.
PlaneX(m, i) == m.positions[i + 1].x[1]
PlaneZ(m, i) == m.positions[i + 1].z[1]
Cross(m, t) ==
    (PlaneX(m, t[2]) - PlaneX(m, t[1])) * (PlaneZ(m, t[3]) - PlaneZ(m, t[1]))
    - (PlaneZ(m, t[2]) - PlaneZ(m, t[1])) * (PlaneX(m, t[3]) - PlaneX(m, t[1]))
QuadGroups == 0..((Chunk2_DIM - 1) * (Chunk2_DIM - 1) - 1)
QuadCells == 0..(Chunk2_DIM - 2)

\* The grid positions of the vertices a triangle refers to.
PlanePoints(m, t) == {<< PlaneX(m, t[k]), PlaneZ(m, t[k]) >> : k \in 1..3}

\* C9: for every quad 0 <= x, y < W-1 exactly one group of six indices is
\* appended for it; its two triangles have three distinct vertices each,
\* share the diagonal (x+1,y)-(x,y+1) and together cover the four corners of
\* the quad, both as indices (linearize of the corners) and as the grid
\* positions of the referenced vertices; the orientation (sign of the cross
\* product at the positions of the referenced vertices) is the same, and not
\* zero, for every triangle of the mesh.
C9_Winding ==
    \A e \in Meshed :
        LET m == MeshOf(e) IN
        /\ Len(m.indices) = 6 * Cardinality(QuadGroups)
        /\ \A x \in QuadCells, y \in QuadCells :
              /\ Cardinality({q \in QuadGroups :
                    /\ Range(Triangle(m, q, 0)) \cup Range(Triangle(m, q, 1)) = Corners(x, y)
                    /\ Range(Triangle(m, q, 0)) \cap Range(Triangle(m, q, 1)) = Diagonal(x, y)
                    /\ Cardinality(Range(Triangle(m, q, 0))) = 3
                    /\ Cardinality(Range(Triangle(m, q, 1))) = 3}) = 1
              /\ Cardinality({q \in QuadGroups :
                    /\ PlanePoints(m, Triangle(m, q, 0)) \cup PlanePoints(m, Triangle(m, q, 1))
                          = {<< x, y >>, << x + 1, y >>, << x, y + 1 >>, << x + 1, y + 1 >>}
                    /\ PlanePoints(m, Triangle(m, q, 0)) \cap PlanePoints(m, Triangle(m, q, 1))
                          = {<< x + 1, y >>, << x, y + 1 >>}}) = 1
        /\ \A q \in QuadGroups, h \in 0..1 :
              /\ Cross(m, Triangle(m, q, h)) # 0
              /\ Cross(m, Triangle(m, q, h)) * Cross(m, Triangle(m, 0, 0)) > 0

\* A mesh with more than one quad has been extracted.
C9_Witness ==
    /\ 1 \in Meshed
    /\ Cardinality(QuadGroups) > 1
    /\ ~world.terrains[1].mesh_outdated
    /\ Len(MeshOf(1).indices) = 6 * Cardinality(QuadGroups)

(***************************************************************************)
(* Properties of the terrain's outdated flag and of the meshing system.    *)
(***************************************************************************)
\* C6: a terrain's chunk is flagged outdated when it is created, the flag is
\* cleared only in a step in which a mesh was extracted from that chunk, and
\* in no reachable state is a terrain clean without a mesh extracted from
\* its chunk.
C6_Lifecycle ==
    /\ [](\A e \in Entities :
            ~world.terrains[e].mesh_outdated =>
               /\ Origin \in DOMAIN world.terrains[e].chunks
               /\ e \in Meshed
               /\ MeshOf(e) = ExtractMesh(ChunkOf(e)))
    /\ [][/\ Spawn =>
               /\ Len(world'.terrains) = Len(world.terrains) + 1
               /\ world'.terrains[Len(world'.terrains)].mesh_outdated
               /\ Origin \in DOMAIN world'.terrains[Len(world'.terrains)].chunks
          /\ \A e \in Entities :
               (world.terrains[e].mesh_outdated /\ ~world'.terrains[e].mesh_outdated) =>
                  /\ world'.bundle[e].mesh > Len(world.meshes)
                  /\ world'.bundle[e].mesh <= Len(world'.meshes)
                  /\ world'.meshes[world'.bundle[e].mesh] = ExtractMesh(ChunkOf(e))]_vars

\* A terrain whose mesh was extracted is clean while a later one is still
\* outdated.
C6_Witness ==
    /\ Len(world.terrains) >= 2
    /\ ~world.terrains[1].mesh_outdated
    /\ 1 \in Meshed
    /\ world.terrains[2].mesh_outdated
    /\ ~(2 \in Meshed)

Outdated(w) == {e \in 1..Len(w.terrains) : w.terrains[e].mesh_outdated}

\* C10: every outdated terrain is meshed and its flag cleared by the next
\* run of planar_meshing, so every outdated terrain is eventually clean; a
\* run over a clean terrain produces no mesh and changes nothing; no run
\* changes a chunk cell or adds or removes a chunk.
C10_Meshing ==
    /\ \A e \in 1..MaxTerrains :
          (Len(world.terrains) >= e /\ world.terrains[e].mesh_outdated)
             ~> (Len(world.terrains) >= e /\ ~world.terrains[e].mesh_outdated)
    /\ [][planar_meshing =>
            /\ Len(world'.terrains) = Len(world.terrains)
            /\ Outdated(world') = {}
            /\ \A e \in Outdated(world) :
                  /\ world'.bundle[e].mesh > Len(world.meshes)
                  /\ world'.meshes[world'.bundle[e].mesh] = ExtractMesh(ChunkOf(e))
            /\ \A e \in Entities \ Outdated(world) :
                  /\ world'.terrains[e] = world.terrains[e]
                  /\ world'.bundle[e] = world.bundle[e]
            /\ Len(world'.meshes) = Len(world.meshes) + Cardinality(Outdated(world))
            /\ SubSeq(world'.meshes, 1, Len(world.meshes)) = world.meshes
            /\ world'.materials = world.materials + Cardinality(Outdated(world))
            /\ \A e \in Entities :
                  world'.terrains[e].chunks = world.terrains[e].chunks]_vars

\* After a run that meshed one terrain, a second terrain was spawned and a
\* later run meshed it alone.
C10_Witness ==
    /\ Len(world.terrains) = 2
    /\ Outdated(world) = {}
    /\ world.bundle[1].mesh = 1
    /\ world.bundle[2].mesh = 2
    /\ Len(world.meshes) = 2

====
